---- MODULE Spec2Model ----
(***************************************************************************)
(* Model of the WildVision observations backend (src/app.py): a Flask      *)
(* application with five routes over one MongoDB collection.               *)
(*                                                                         *)
(* Python values are modelled by what the interpreter does with them:      *)
(*   - a str is a sequence of one-character strings;                       *)
(*   - an int is an integer;                                               *)
(*   - a float is the shortest decimal that reads back as it, which is    *)
(*     what repr() prints: m * 10^(-e) with no zero at the end of m, or    *)
(*     0.0, -0.0, +infinity, -infinity or NaN (json.loads reads the        *)
(*     tokens Infinity, -Infinity and NaN);                                *)
(*   - None, True/False, the empty list and the empty dict are tags.       *)
(* The integers, and the digits m of a decimal, are those that fit an      *)
(* integer of the model checker: such a decimal has at most ten digits,    *)
(* so that float() keeps it as it is wherever the doubles have their full  *)
(* precision, and rounds it to a multiple of 2^-1074 where they end.  The  *)
(* characters of the model are the code points U+0000 to U+00FF, the ones  *)
(* a TLA+ string can hold; on those the operators below compute what       *)
(* str(), int(), float(), str.strip() and bytes.fromhex() compute.         *)
(*                                                                         *)
(* Flask serves requests in threads and app.py holds no lock.  A handler   *)
(* touches shared state only in its one store call, so a request is        *)
(* answered by the step that makes that call; add_observation also reads   *)
(* the clock before it calls insert_one, and is two steps: between them    *)
(* the request is in flight, other requests are answered and time passes.  *)
(***************************************************************************)
EXTENDS Integers, Sequences, FiniteSets, Bags, TLC

(***************************************************************************)
(* Bounds of the model.                                                    *)
(***************************************************************************)
\* how many ObjectIds the store generates in one behaviour
MaxInserts == 2
\* the last instant of the service clock (datetime.utcnow())
MaxClock == 1

(***************************************************************************)
(* JSON / Python values.                                                   *)
(***************************************************************************)
Chars(s) ==
    CASE s = "species"   -> <<"s","p","e","c","i","e","s">>
      [] s = "gender"    -> <<"g","e","n","d","e","r">>
      [] s = "quantity"  -> <<"q","u","a","n","t","i","t","y">>
      [] s = "latitude"  -> <<"l","a","t","i","t","u","d","e">>
      [] s = "longitude" -> <<"l","o","n","g","i","t","u","d","e">>
      [] s = "userId"    -> <<"u","s","e","r","I","d">>
      [] s = "Male"      -> <<"M","a","l","e">>
      [] s = "Female"    -> <<"F","e","m","a","l","e">>
      [] s = "Unknown"   -> <<"U","n","k","n","o","w","n">>
      [] s = "None"      -> <<"N","o","n","e">>
      [] s = "True"      -> <<"T","r","u","e">>
      [] s = "False"     -> <<"F","a","l","s","e">>
      [] s = "inf"       -> <<"i","n","f">>
      [] s = "-inf"      -> <<"-","i","n","f">>
      [] s = "infinity"  -> <<"i","n","f","i","n","i","t","y">>
      [] s = "nan"       -> <<"n","a","n">>
      [] s = "0.0"       -> <<"0",".","0">>
      [] s = "-0.0"      -> <<"-","0",".","0">>
      [] s = "[]"        -> <<"[","]">>
      [] s = "{}"        -> <<"{","}">>

\* the uniform shape of a value: tag, characters, mantissa, decimal places
Val(t, s, m, e) == [t |-> t, s |-> s, m |-> m, e |-> e]
StrV(s)    == Val("str", s, 0, 0)
IntV(n)    == Val("int", <<>>, n, 0)
FloatV(m, e) == Val("float", <<>>, m, e)
InfV       == Val("inf", <<>>, 0, 0)
NegInfV    == Val("-inf", <<>>, 0, 0)
NanV       == Val("nan", <<>>, 0, 0)
NegZeroV   == Val("-0.0", <<>>, 0, 0)
NoneV      == Val("None", <<>>, 0, 0)
BoolV(b)   == Val("bool", <<>>, IF b THEN 1 ELSE 0, 0)
ListV      == Val("list", <<>>, 0, 0)
DictV      == Val("dict", <<>>, 0, 0)

\* the outcome of a coercion: a value, or the exception raised
Ok(v)      == [ok |-> TRUE, v |-> v, exc |-> "none"]
Raise(x)   == [ok |-> FALSE, v |-> NoneV, exc |-> x]

Digit == <<"0","1","2","3","4","5","6","7","8","9">>
IsDigit(c) == \E d \in 1..10 : Digit[d] = c
DigitVal(c) == (CHOOSE d \in 1..10 : Digit[d] = c) - 1

\* the whitespace characters that have no escape in a string, as themselves:
\* U+000B, U+001C, U+001D, U+001E, U+001F, U+0085 and U+00A0
VT   == ""
FS   == ""
GS   == ""
RS   == ""
US   == ""
NEL  == ""
NBSP == " "

\* ASCII whitespace: what bytes.fromhex() skips between pairs of digits
AsciiSpace == {" ", "\t", "\n", VT, "\f", "\r"}
\* what int() and float() drop around a literal: ASCII whitespace, and the
\* whitespace beyond ASCII, which they first turn into a space
NumericSpace == AsciiSpace \cup {NEL, NBSP}
\* the characters str.isspace() holds of: what str.strip() drops
Whitespace == AsciiSpace \cup {FS, GS, RS, US, NEL, NBSP}

IsSpace(c) == c \in Whitespace

RECURSIVE Pow10(_)
Pow10(e) == IF e = 0 THEN 1 ELSE 10 * Pow10(e - 1)

Abs(n) == IF n < 0 THEN -n ELSE n

\* s without its leading, and its trailing, characters of the set blanks
RECURSIVE LStrip(_, _)
LStrip(s, blanks) ==
    IF s # <<>> /\ Head(s) \in blanks THEN LStrip(Tail(s), blanks) ELSE s

RECURSIVE RStrip(_, _)
RStrip(s, blanks) ==
    IF s # <<>> /\ s[Len(s)] \in blanks
    THEN RStrip(SubSeq(s, 1, Len(s) - 1), blanks) ELSE s

\* str.strip()
Strip(s) == RStrip(LStrip(s, Whitespace), Whitespace)

\* the literal int() and float() read: the string without the blanks around it
NumericStrip(s) == RStrip(LStrip(s, NumericSpace), NumericSpace)

\* the decimal digits of a natural number
RECURSIVE NatChars(_)
NatChars(n) ==
    IF n < 10 THEN <<Digit[n + 1]>> ELSE NatChars(n \div 10) \o <<Digit[(n % 10) + 1]>>

Zeros(n) == [i \in 1..n |-> "0"]

\* a decimal in lowest form: no zero at the end of m
RECURSIVE Norm(_, _)
Norm(m, e) ==
    IF m = 0 THEN FloatV(0, 0)
    ELSE IF m % 10 = 0 THEN Norm(m \div 10, e - 1)
    ELSE FloatV(m, e)

\* repr of a float: positional when the point falls within the digits or
\* near them, with an exponent otherwise
FloatChars(v) ==
    IF v.t # "float" THEN Chars(v.t)
    ELSE LET n == Norm(v.m, v.e)
             digits == NatChars(Abs(n.m))
             sign == IF n.m < 0 THEN <<"-">> ELSE <<>>
             point == Len(digits) - n.e
             exp == Abs(point - 1)
         IN  IF n.m = 0 THEN Chars("0.0")
             ELSE IF point > 16 \/ point < -3
             THEN sign \o <<Head(digits)>>
                  \o (IF Len(digits) > 1 THEN <<".">> \o Tail(digits) ELSE <<>>)
                  \o <<"e", IF point > 16 THEN "+" ELSE "-">>
                  \o (IF exp < 10 THEN <<"0">> ELSE <<>>) \o NatChars(exp)
             ELSE IF n.e <= 0 THEN sign \o digits \o Zeros(-n.e) \o <<".", "0">>
             ELSE IF point > 0
             THEN sign \o SubSeq(digits, 1, point) \o <<".">>
                  \o SubSeq(digits, point + 1, Len(digits))
             ELSE sign \o <<"0", ".">> \o Zeros(-point) \o digits

\* str(x)
PyStr(x) ==
    CASE x.t = "str"   -> x.s
      [] x.t = "int"   -> (IF x.m < 0 THEN <<"-">> ELSE <<>>) \o NatChars(Abs(x.m))
      [] x.t \in {"float", "-0.0", "inf", "-inf", "nan"} -> FloatChars(x)
      [] x.t = "None"  -> Chars("None")
      [] x.t = "bool"  -> IF x.m = 1 THEN Chars("True") ELSE Chars("False")
      [] x.t = "list"  -> Chars("[]")
      [] x.t = "dict"  -> Chars("{}")

AllDigits(s) == \A i \in 1..Len(s) : IsDigit(s[i])

RECURSIVE DigitsVal(_)
DigitsVal(s) ==
    IF s = <<>> THEN 0 ELSE 10 * DigitsVal(SubSeq(s, 1, Len(s) - 1)) + DigitVal(s[Len(s)])

\* a numeric literal without its blanks: the sign and what follows it
Sign(s) == IF s # <<>> /\ Head(s) = "-" THEN -1 ELSE 1
Unsigned(s) == IF s # <<>> /\ Head(s) \in {"-", "+"} THEN Tail(s) ELSE s

\* whether u is digits with single underscores between them, and its digits
Grouped(u) ==
    /\ u # <<>>
    /\ \A i \in 1..Len(u) : IsDigit(u[i]) \/ u[i] = "_"
    /\ IsDigit(u[1]) /\ IsDigit(u[Len(u)])
    /\ \A i \in 1..(Len(u) - 1) : ~(u[i] = "_" /\ u[i + 1] = "_")
Ungroup(u) == SelectSeq(u, IsDigit)

\* int(str): blanks, an optional sign, digits
ParseInt(s) ==
    LET u == Unsigned(NumericStrip(s))
    IN  IF Grouped(u)
        THEN Ok(IntV(Sign(NumericStrip(s)) * DigitsVal(Ungroup(u))))
        ELSE Raise("ValueError")

UpperCase == <<"A","B","C","D","E","F","G","H","I","J","K","L","M",
               "N","O","P","Q","R","S","T","U","V","W","X","Y","Z">>
LowerCase == <<"a","b","c","d","e","f","g","h","i","j","k","l","m",
               "n","o","p","q","r","s","t","u","v","w","x","y","z">>
\* s with its ASCII capitals as small letters
Lower(s) ==
    [i \in 1..Len(s) |->
        IF \E k \in 1..26 : UpperCase[k] = s[i]
        THEN LowerCase[CHOOSE k \in 1..26 : UpperCase[k] = s[i]] ELSE s[i]]

(***************************************************************************)
(* float() of a decimal.  A double is 53 binary digits and a power of two, *)
(* so a decimal of at most ten digits reads back from the double nearest   *)
(* to it, and is the value.  The doubles end at 1.7976931348623157e308:    *)
(* a decimal nearer to the next power of two than to that is infinite.     *)
(* Below 2^-1022 the doubles are the multiples of 2^-1074 (about           *)
(* 4.94e-324): a decimal of 324 decimal places or more is rounded to the   *)
(* nearest multiple, to the even one of two that are as near, and the      *)
(* value is the shortest decimal that rounds to the same multiple, the     *)
(* nearest to it of those.                                                 *)
(***************************************************************************)
\* the digits before the point of the first power of ten that is infinite
MaxOrder10 == 309
\* the first ten digits of the largest double
MaxDouble10 == 1797693134
\* the decimal places of the smallest double, 5e-324
MinPlaces10 == 324

\* long numbers are written in groups of four digits
Group == 10000

\* 2^1074 in decimal, in groups of four digits, the first group first
TwoTo1074 ==
    <<2024,  225, 3307, 3106, 1835, 2495, 3467, 1891, 7307,  495, 5664, 9764,
      1421, 1835, 6901, 3580, 2743,  339, 5679, 9534, 6891, 9603, 8370, 1437,
      1244, 9518, 7077, 8643, 1681, 1911, 3898,  873, 7385, 7934, 7686, 7013,
      3999, 4073, 8509, 9215, 1742, 4276, 5663, 6136, 4466, 9077, 4209, 3216,
      3412, 3976, 7678, 4727, 4506, 8562,   74, 8342, 4692, 6986, 1810, 3355,
      6491, 5955, 6340, 8100, 5651, 2358, 7695, 5233, 3414, 6152, 3050, 2532,
      1863, 2750, 8646,   62, 6330, 7707, 7410, 9349, 4784>>

\* the groups of a natural number, the last first
RECURSIVE NatGroups(_)
NatGroups(n) == IF n < Group THEN <<n>> ELSE <<n % Group>> \o NatGroups(n \div Group)

\* the groups of 10 * c + 5, the last first
HalfAfter(c) == <<(c % 1000) * 10 + 5>> \o NatGroups(c \div 1000)

\* the i-th column of the long multiplication of a by 2^1074: the sum of
\* its first j terms
RECURSIVE ColumnSum(_, _, _)
ColumnSum(a, i, j) ==
    IF j = 0 THEN 0
    ELSE (IF (i + 1) - j \in 1..Len(TwoTo1074)
          THEN a[j] * TwoTo1074[(Len(TwoTo1074) + j) - i] ELSE 0)
         + ColumnSum(a, i, j - 1)

\* the columns from the i-th on as groups, the carry taken along
RECURSIVE Carried(_, _, _)
Carried(cols, i, carry) ==
    IF i > Len(cols) THEN (IF carry = 0 THEN <<>> ELSE NatGroups(carry))
    ELSE <<(cols[i] + carry) % Group>>
         \o Carried(cols, i + 1, (cols[i] + carry) \div Group)

\* the groups of a * 2^1074, the last first; a is given by its groups
Times(a) ==
    LET cols == [i \in 1..((Len(a) + Len(TwoTo1074)) - 1) |-> ColumnSum(a, i, Len(a))]
    IN  Carried(cols, 1, 0)

\* the i-th digit, from the last, of the number of groups P
DigitAt(P, i) ==
    IF i \in 1..(4 * Len(P))
    THEN (P[((i - 1) \div 4) + 1] \div Pow10((i - 1) % 4)) % 10
    ELSE 0

\* the number whose digits are those of P from the i-th on
RECURSIVE ValueFrom(_, _)
ValueFrom(P, i) ==
    IF i > 4 * Len(P) THEN 0 ELSE DigitAt(P, i) + 10 * ValueFrom(P, i + 1)

\* how many multiples of 2^-1074 lie in a * 10^(-e), the last one whole
Floor(a, e) == ValueFrom(Times(a), e + 1)

\* P, a number of groups, without its last e digits, rounded to the nearest
\* whole number, to the even one of two that are as near
HalfEven(P, e) ==
    LET q == ValueFrom(P, e + 1)
        more == \E i \in 1..(e - 1) : DigitAt(P, i) # 0
    IN  IF DigitAt(P, e) > 5 \/ (DigitAt(P, e) = 5 /\ more) THEN q + 1
        ELSE IF DigitAt(P, e) = 5 /\ q % 2 = 1 THEN q + 1
        ELSE q

\* the multiple of 2^-1074 nearest to a * 10^(-e), the even one of two
Nearest(a, e) == HalfEven(Times(a), e)

\* m * 10^(-e) cut to p decimal places, for p <= e
Whole(m, e, p) == IF e - p > 9 THEN 0 ELSE m \div Pow10(e - p)

\* the decimals of one place less than MinPlaces10, of t0 and the next,
\* that round to the multiple k of 2^-1074
Shorter(k, t0) ==
    {t \in {t0, t0 + 1} : t > 0 /\ Nearest(NatGroups(t), MinPlaces10 - 1) = k}

\* the decimal of MinPlaces10 places nearest to k * 2^-1074, among those
\* about c0
Closest(k, c0) ==
    {c \in (c0 - 2)..(c0 + 3) :
        /\ c > 0
        /\ Floor(HalfAfter(c - 1), MinPlaces10 + 1) < k
        /\ k <= Floor(HalfAfter(c), MinPlaces10 + 1)}

\* the shortest decimal that rounds to the multiple k of 2^-1074: one of ts
\* when there is one, the one of cs when there is none
Shortest(k, ts, cs) ==
    IF k = 0 THEN FloatV(0, 0)
    ELSE IF ts # {} THEN Norm(CHOOSE t \in ts : TRUE, MinPlaces10 - 1)
    ELSE Norm(CHOOSE c \in cs : TRUE, MinPlaces10)

\* the float that is the multiple k of 2^-1074, for the decimal m * 10^(-e)
\* that rounds to it
Multiple(k, m, e) ==
    Shortest(k, Shorter(k, Whole(m, e, MinPlaces10 - 1)),
                Closest(k, Whole(m, e, MinPlaces10)))

\* the float of m * 10^(-e), for m > 0 in lowest form and e >= MinPlaces10:
\* with k the multiple of 2^-1074 it rounds to, the decimal of one place
\* less that rounds to k when there is one, and the decimal of
\* MinPlaces10 places nearest to k * 2^-1074 when there is none
Rounded(m, e) == Multiple(Nearest(NatGroups(m), e), m, e)

\* the digits before the point of the decimal n, less when it starts after it
Order(n) == Len(NatChars(n.m)) - n.e

\* the float nearest to the decimal n in lowest form, were floats unbounded
\* above
Magnitude(n) ==
    IF n.e < MinPlaces10 THEN n
    ELSE IF Order(n) <= -MinPlaces10 THEN FloatV(0, 0)
    ELSE Rounded(n.m, n.e)

\* the decimal n in lowest form is nearer to 2^1024 than to the largest double
Overflows(n) ==
    \/ Order(n) > MaxOrder10
    \/ Order(n) = MaxOrder10 /\ n.m > MaxDouble10 \div Pow10(10 - Len(NatChars(n.m)))

\* the float of sign and the decimal n in lowest form, r its magnitude
Signed(sign, n, r) ==
    IF r.m = 0 THEN (IF sign < 0 THEN NegZeroV ELSE FloatV(0, 0))
    ELSE IF Overflows(n) THEN (IF sign < 0 THEN NegInfV ELSE InfV)
    ELSE FloatV(sign * r.m, r.e)

\* the float of the decimal sign * m * 10^(-e), m a natural number
Scaled(sign, m, e) == Signed(sign, Norm(m, e), Magnitude(Norm(m, e)))

\* float(str) of a decimal literal: digits with an optional point, and an
\* optional exponent
ParseDecimal(sign, u) ==
    LET es == {i \in 1..Len(u) : u[i] \in {"e", "E"}}
        k == IF es = {} THEN Len(u) + 1 ELSE CHOOSE i \in es : \A j \in es : i <= j
        mant == SubSeq(u, 1, k - 1)
        ex == SubSeq(u, k + 1, Len(u))
        dots == {i \in 1..Len(mant) : mant[i] = "."}
        p == IF dots = {} THEN Len(mant) + 1 ELSE CHOOSE i \in dots : \A j \in dots : i <= j
        ip == SubSeq(mant, 1, p - 1)
        fp == SubSeq(mant, p + 1, Len(mant))
    IN  IF /\ Cardinality(dots) <= 1
           /\ ip = <<>> \/ Grouped(ip)
           /\ fp = <<>> \/ Grouped(fp)
           /\ Len(ip) + Len(fp) > 0
           /\ es = {} \/ Grouped(Unsigned(ex))
        THEN Ok(Scaled(sign, DigitsVal(Ungroup(ip) \o Ungroup(fp)),
                Len(Ungroup(fp))
                - (IF es = {} THEN 0 ELSE Sign(ex) * DigitsVal(Ungroup(Unsigned(ex))))))
        ELSE Raise("ValueError")

\* float(str): blanks, an optional sign, then inf, infinity or nan in any
\* case, or a decimal literal
ParseFloat(s) ==
    LET u == Unsigned(NumericStrip(s))
        sign == Sign(NumericStrip(s))
    IN  IF Lower(u) \in {Chars("inf"), Chars("infinity")}
        THEN Ok(IF sign < 0 THEN NegInfV ELSE InfV)
        ELSE IF Lower(u) = Chars("nan") THEN Ok(NanV)
        ELSE ParseDecimal(sign, u)

\* the whole part of a float; one of ten decimal places or more has none
Trunc(x) ==
    IF x.e >= 10 THEN 0
    ELSE IF x.e <= 0 THEN x.m * Pow10(-x.e)
    ELSE (IF x.m < 0 THEN -1 ELSE 1) * (Abs(x.m) \div Pow10(x.e))

\* int(x)
PyInt(x) ==
    CASE x.t = "str"   -> ParseInt(x.s)
      [] x.t = "int"   -> Ok(x)
      [] x.t = "bool"  -> Ok(IntV(x.m))
      [] x.t = "float" -> Ok(IntV(Trunc(x)))
      [] x.t = "-0.0"  -> Ok(IntV(0))
      [] x.t \in {"inf", "-inf"} -> Raise("OverflowError")
      [] x.t = "nan"   -> Raise("ValueError")
      [] OTHER         -> Raise("TypeError")

\* float(x)
PyFloat(x) ==
    CASE x.t = "str"   -> ParseFloat(x.s)
      [] x.t = "int"   -> Ok(Norm(x.m, 0))
      [] x.t = "bool"  -> Ok(Norm(x.m, 0))
      [] x.t \in {"float", "-0.0", "inf", "-inf", "nan"} -> Ok(x)
      [] OTHER         -> Raise("TypeError")

(***************************************************************************)
(* bson.ObjectId: the canonical text of an identifier is 24 hexadecimal    *)
(* digits.  ObjectId(text) takes a text of 24 characters that              *)
(* bytes.fromhex() can read, and raises InvalidId on anything else;        *)
(* fromhex skips blanks between pairs of digits, so a text of 24           *)
(* characters with blanks gives an identifier of fewer than 12 bytes.      *)
(* The store's generated identifiers are the 12-byte numbers 1, 2, ...     *)
(***************************************************************************)
OidHexLen == 24
HexLower == <<"0","1","2","3","4","5","6","7","8","9","a","b","c","d","e","f">>
HexUpper == <<"0","1","2","3","4","5","6","7","8","9","A","B","C","D","E","F">>
IsHex(c) == \E d \in 1..16 : HexLower[d] = c \/ HexUpper[d] = c
HexVal(c) == (CHOOSE d \in 1..16 : HexLower[d] = c \/ HexUpper[d] = c) - 1

RECURSIVE HexChars(_, _)
HexChars(n, w) ==
    IF w = 0 THEN <<>> ELSE HexChars(n \div 16, w - 1) \o <<HexLower[(n % 16) + 1]>>

RECURSIVE HexesVal(_)
HexesVal(s) ==
    IF s = <<>> THEN 0 ELSE 16 * HexesVal(SubSeq(s, 1, Len(s) - 1)) + HexVal(s[Len(s)])

\* str(ObjectId)
OidStr(oid) == HexChars(oid, OidHexLen)

\* bytes.fromhex(s): the hex digits read, or <<"error">> when a pair of
\* digits is broken
RECURSIVE FromHex(_)
FromHex(s) ==
    IF s = <<>> THEN <<>>
    ELSE IF Head(s) \in AsciiSpace THEN FromHex(Tail(s))
    ELSE IF Len(s) >= 2 /\ IsHex(s[1]) /\ IsHex(s[2])
         THEN LET rest == FromHex(SubSeq(s, 3, Len(s)))
              IN  IF rest = <<"error">> THEN rest ELSE <<s[1], s[2]>> \o rest
    ELSE <<"error">>

\* an identifier: its bytes as a number, and how many bytes it has
Oid(n, size) == [ok |-> TRUE, oid |-> n, size |-> size, exc |-> "none"]
InvalidId == [ok |-> FALSE, oid |-> 0, size |-> 0, exc |-> "InvalidId"]

\* ObjectId(id)
ObjectId(id) ==
    IF Len(id) = OidHexLen /\ FromHex(id) # <<"error">>
    THEN Oid(HexesVal(FromHex(id)), Len(FromHex(id)) \div 2)
    ELSE InvalidId

\* whether the identifier is one the store can hold: 12 bytes
FullSize(o) == o.size = OidHexLen \div 2

\* datetime.isoformat() + 'Z'
IsoZ(t) == <<"T", t, "Z">>

(***************************************************************************)
(* Requests and responses.                                                 *)
(***************************************************************************)
\* request.headers.get('x-api-key'): None when the header is absent
NoHeader == <<>>
Header(s) == <<s>>
Secret == "s3cret"

\* os.getenv(...): None when the variable is not set
NoEnv == <<>>

\* the body of a request as request.get_json() sees it
Body(k, d, items, v) == [k |-> k, d |-> d, items |-> items, v |-> v]
EmptyDict == [f \in {} |-> NoneV]
DictBody(d)  == Body("dict", d, <<>>, NoneV)
ListBody(l)  == Body("list", EmptyDict, l, NoneV)
ScalarBody(v) == Body(v.t, EmptyDict, <<>>, v)
Unparseable == Body("unparseable", EmptyDict, <<>>, NoneV)
NoBody == Body("absent", EmptyDict, <<>>, NoneV)

Request(route, key, body, id) == [route |-> route, key |-> key, body |-> body, id |-> id]
NoRequest == Request("none", NoHeader, NoBody, <<>>)

\* jsonify(body), code
Resp(code, body) == [code |-> code, body |-> body]
Error(code, text) == Resp(code, [status |-> "error", message |-> text])
\* an exception that leaves the view function: the framework's own error page
Fault(code, exc) == Resp(code, [fault |-> exc])
NoResponse == Resp(0, [idle |-> TRUE])

VARIABLES
    API_KEY,                  \* the configured secret
    observations_collection,  \* the documents of the collection, by identifier
    generated,                \* how many identifiers the store has generated
    now,                      \* the service clock
    request,                  \* the request being answered
    response,                 \* its response
    calls,                    \* the store operations the request made
    pending,                  \* the adds in flight: stamped, waiting in insert_one
    submitted,                \* history: the payload and instant of each add, until its delete
    deleted                   \* history: the identifiers whose delete returned 200

vars == <<API_KEY, observations_collection, generated, now, request, response,
          calls, pending, submitted, deleted>>

store == <<observations_collection, generated>>
history == <<submitted, deleted>>

required_fields == <<"species", "gender", "quantity", "latitude", "longitude", "userId">>


(***************************************************************************)
(* require_api_key                                                         *)
(***************************************************************************)
\* a guard that only asks for the header to be present
AuthorizedAnyKey(key) == key # NoHeader

\* the negation of: not key or key != API_KEY
Authorized(key) == ~(key = NoHeader \/ key = Header("") \/ key # API_KEY)

Unauthorized == Error(401, <<"Unauthorized">>)

(***************************************************************************)
(* add_observation: validation and coercion of the body                    *)
(***************************************************************************)
\* bool(data)
Truthy(data) ==
    CASE data.k = "dict"  -> DOMAIN data.d # {}
      [] data.k = "list"  -> data.items # <<>>
      [] data.k = "str"   -> data.v.s # <<>>
      [] data.k = "int"   -> data.v.m # 0
      [] data.k = "float" -> data.v.m # 0
      [] data.k \in {"inf", "-inf", "nan"} -> TRUE
      [] data.k = "bool"  -> data.v.m = 1
      [] OTHER            -> FALSE

IsSubstring(a, b) ==
    \E i \in 0..(Len(b) - Len(a)) : SubSeq(b, i + 1, i + Len(a)) = a

\* whether `field in data` can be evaluated at all
Iterable(data) == data.k \in {"dict", "list", "str"}

\* field in data
Contains(field, data) ==
    CASE data.k = "dict" -> field \in DOMAIN data.d
      [] data.k = "list" -> \E i \in 1..Len(data.items) : data.items[i] = StrV(Chars(field))
      [] data.k = "str"  -> IsSubstring(Chars(field), data.v.s)

IsMissing(field, data) == ~Contains(field, data)

\* a check that stops at the first missing field
FirstMissingOnly(data) ==
    LET m == SelectSeq(required_fields, LAMBDA f : IsMissing(f, data))
    IN  IF m = <<>> THEN m ELSE <<m[1]>>

\* [field for field in required_fields if field not in data]
missing_fields(data) == SelectSeq(required_fields, LAMBDA f : IsMissing(f, data))

\* 'Missing fields: ' + ", ".join(missing_fields), as its pieces
MissingMessage(missing) == <<"Missing fields: ">> \o missing

\* the six coercions of the try block, each a value or the exception it raises
species_of(d)   == Ok(StrV(Strip(PyStr(d["species"]))))
gender_of(d)    == Ok(StrV(Strip(PyStr(d["gender"]))))
quantity_of(d)  == PyInt(d["quantity"])
latitude_of(d)  == PyFloat(d["latitude"])
longitude_of(d) == PyFloat(d["longitude"])
user_id_of(d)   == Ok(StrV(Strip(PyStr(d["userId"]))))

Coercions(d) ==
    <<species_of(d), gender_of(d), quantity_of(d), latitude_of(d), longitude_of(d),
      user_id_of(d)>>

\* the exception the try block raises first, "none" when it raises none
FirstRaised(data) ==
    IF data.k # "dict" THEN "TypeError"   \* data['species'] on a list or a str
    ELSE LET c == Coercions(data.d)
             bad == {i \in 1..Len(c) : ~c[i].ok}
         IN  IF bad = {} THEN "none"
             ELSE c[CHOOSE i \in bad : \A j \in bad : i <= j].exc

\* except (ValueError, TypeError)
Caught(exc) == exc \in {"ValueError", "TypeError"}

GenderAllowed(gender) == gender \in {Chars("Male"), Chars("Female"), Chars("Unknown")}

QuantityAllowed(quantity) == ~(quantity < 1)

\* a document that takes the timestamp of the body when it has one
ObservationClientTime(d, t) ==
    [species   |-> species_of(d).v.s,
     gender    |-> gender_of(d).v.s,
     quantity  |-> quantity_of(d).v.m,
     latitude  |-> latitude_of(d).v,
     longitude |-> longitude_of(d).v,
     userId    |-> user_id_of(d).v.s,
     timestamp |-> IF "timestamp" \in DOMAIN d THEN d["timestamp"].m ELSE t]

\* the observation document, for a body whose coercions all succeed
Observation(d, t) ==
    [species   |-> species_of(d).v.s,
     gender    |-> gender_of(d).v.s,
     quantity  |-> quantity_of(d).v.m,
     latitude  |-> latitude_of(d).v,
     longitude |-> longitude_of(d).v,
     userId    |-> user_id_of(d).v.s,
     timestamp |-> t]

\* the response of the lines before insert_one, NoResponse when they return none
Rejection(data) ==
    IF data.k = "unparseable" THEN Fault(400, "BadRequest")
    ELSE IF ~Truthy(data) THEN Error(400, <<"No data provided">>)
    ELSE IF ~Iterable(data) THEN Fault(500, "TypeError")
    ELSE IF missing_fields(data) # <<>>
         THEN Error(400, MissingMessage(missing_fields(data)))
    ELSE IF FirstRaised(data) # "none"
         THEN IF Caught(FirstRaised(data))
              THEN Error(400, <<"Invalid data types provided">>)
              ELSE Fault(500, FirstRaised(data))
    ELSE IF ~GenderAllowed(gender_of(data.d).v.s)
         THEN Error(400, <<"Invalid gender value">>)
    ELSE IF ~QuantityAllowed(quantity_of(data.d).v.m)
         THEN Error(400, <<"Quantity must be at least 1">>)
    ELSE NoResponse

(***************************************************************************)
(* The collection (pymongo): insert_one, find, find_one, delete_one.       *)
(***************************************************************************)
\* one store operation of a request, and whether it raised
Call(op, raised) == [op |-> op, raised |-> raised]

\* a generator that gives out the least identifier no record has
ReusedObjectId ==
    CHOOSE k \in 1..(generated + 1) :
        /\ k \notin DOMAIN observations_collection
        /\ \A j \in 1..(k - 1) : j \in DOMAIN observations_collection

\* the identifier insert_one gives a document without _id
NewObjectId == generated + 1

\* an insert that also restamps the documents already stored
InsertOneRestamp(oid, doc) ==
    [k \in DOMAIN observations_collection \cup {oid} |->
        IF k = oid THEN doc
        ELSE [observations_collection[k] EXCEPT !.timestamp = doc.timestamp]]

\* the collection after insert_one(doc)
InsertOne(oid, doc) ==
    [k \in DOMAIN observations_collection \cup {oid} |->
        IF k = oid THEN doc ELSE observations_collection[k]]

\* a delete whose filter matches every document
DeleteMany(oid) ==
    [k \in {} |-> observations_collection[k]]

\* the collection after delete_one({'_id': oid})
DeleteOne(oid) ==
    [k \in DOMAIN observations_collection \ {oid} |-> observations_collection[k]]

\* whether a document has the identifier o; one of fewer than 12 bytes is
\* the identifier of no document
Found(o) == FullSize(o) /\ o.oid \in DOMAIN observations_collection

\* deleted_count
DeletedCount(o) == IF Found(o) THEN 1 ELSE 0

\* a found document with _id and timestamp rendered as text
Render(oid, doc) ==
    [_id       |-> OidStr(oid),
     species   |-> doc.species,
     gender    |-> doc.gender,
     quantity  |-> doc.quantity,
     latitude  |-> doc.latitude,
     longitude |-> doc.longitude,
     userId    |-> doc.userId,
     timestamp |-> IsoZ(doc.timestamp)]

\* list(find()) rendered, in the store's natural (insertion) order
RECURSIVE FindAll(_)
FindAll(n) ==
    IF n = 0 THEN <<>>
    ELSE FindAll(n - 1) \o
         (IF n \in DOMAIN observations_collection
          THEN <<Render(n, observations_collection[n])>> ELSE <<>>)

(***************************************************************************)
(* Inputs.                                                                 *)
(***************************************************************************)
Keys == {NoHeader, Header(""), Header(Secret), Header("wrong")}
Secrets == {NoEnv, Header(""), Header(Secret)}

Restrict(f, S) == [k \in S |-> f[k]]
With(f, k, v) == [j \in DOMAIN f \cup {k} |-> IF j = k THEN v ELSE f[j]]
Fields == {required_fields[i] : i \in 1..Len(required_fields)}

\* the example of the specification
Deer ==
    [f \in Fields |->
        CASE f = "species"   -> StrV(<<"D","e","e","r">>)
          [] f = "gender"    -> StrV(Chars("Male"))
          [] f = "quantity"  -> IntV(2)
          [] f = "latitude"  -> FloatV(451, 1)
          [] f = "longitude" -> FloatV(-702, 1)
          [] f = "userId"    -> StrV(<<"u","1">>)]

\* every field in a form the coercions change, and a client timestamp
Loose ==
    [f \in Fields \cup {"timestamp"} |->
        CASE f = "species"   -> StrV(<<NBSP,"E","l","k","\f",US>>)
          [] f = "gender"    -> StrV(<<"\n",VT>> \o Chars("Female") \o <<NEL,"\r">>)
          [] f = "quantity"  -> StrV(<<VT,"0","_","3",NBSP>>)
          [] f = "latitude"  -> StrV(<<"\t","-","4","0",".","0","E","-","3","2","5",NEL>>)
          [] f = "longitude" -> IntV(12)
          [] f = "userId"    -> IntV(7)
          [] f = "timestamp" -> IntV(99)]

\* bodies that differ from Deer in one field
Variants ==
    {With(Deer, "species", v) : v \in {StrV(<<" ", " ">>)}}
    \cup {With(Deer, "gender", v) :
            v \in {StrV(<<"C","a","t">>), StrV(<<"m","a","l","e">>), NoneV}}
    \cup {With(Deer, "quantity", v) :
            v \in {IntV(0), IntV(-1), FloatV(5, 1), StrV(<<"a","b","c">>),
                   StrV(<<"3",".","5">>), StrV(<<>>), StrV(<<"3",US>>), NoneV, ListV,
                   InfV, NanV}}
    \cup {With(Deer, "latitude", v) :
            v \in {StrV(<<"n","o","r","t","h">>), StrV(<<"1","e">>), NoneV}}
    \cup {With(Deer, "longitude", v) : v \in {StrV(<<"1",".","2",".","3">>), DictV}}

\* bodies that lack required fields: every subset of the six, and a body
\* that holds only a key the handler does not read
Partial ==
    {Restrict(Deer, S) : S \in (SUBSET Fields) \ {Fields}}
    \cup {[f \in {"timestamp"} |-> IntV(99)]}

AllNames == Chars("species") \o Chars("gender") \o Chars("quantity")
            \o Chars("latitude") \o Chars("longitude") \o Chars("userId")

\* bodies that are not JSON objects
NonObjects ==
    {ScalarBody(v) : v \in {IntV(5), IntV(0), BoolV(TRUE), BoolV(FALSE), NoneV, InfV,
                            FloatV(15, 1), StrV(<<"a","b","c">>), StrV(AllNames)}}
    \cup {ListBody(<<>>), ListBody(<<IntV(1)>>),
          ListBody([i \in 1..Len(required_fields) |-> StrV(Chars(required_fields[i]))])}
    \cup {Unparseable}

Bodies == {DictBody(d) : d \in {Deer, Loose} \cup Variants \cup Partial} \cup NonObjects

\* the bodies sent under a key: every body under the secret, a sample of
\* each kind under the other keys
BodiesUnder(key) ==
    IF key = Header(Secret) THEN Bodies
    ELSE {DictBody(Deer), DictBody(Loose), DictBody(EmptyDict),
          DictBody(With(Deer, "quantity", InfV)), ScalarBody(IntV(5)), Unparseable}

\* identifiers of the path: well-formed ones, and malformed ones
PathIds ==
    {OidStr(k) : k \in 1..(MaxInserts + 1)}
    \cup {<<"a","b","c">>, HexChars(1, OidHexLen - 1) \o <<"g">>, HexChars(1, OidHexLen + 1),
          HexChars(1, OidHexLen - 2) \o <<" ", VT>>,
          HexChars(1, OidHexLen - 2) \o <<NBSP, NBSP>>,
          HexChars(1, OidHexLen - 2) \o <<" ", "1">>}

(***************************************************************************)
(* The routes.  request, response and calls record the answer a step has   *)
(* just produced; Deliver hands it to the client.  Requests whose store    *)
(* call is still to come are in flight beside it.                          *)
(***************************************************************************)
Idle == request = NoRequest

Answer(req, resp, cs) ==
    /\ request' = req
    /\ response' = resp
    /\ calls' = cs

\* an add in flight: its request and the instant it read from the clock
InFlight(req, at) == [req |-> req, at |-> at]

\* POST /api/add_observation, to the call of insert_one: the key check, the
\* validation and the reading of the clock
add_observation(key, data) ==
    /\ Idle
    /\ LET req == Request("add_observation", key, data, <<>>)
       IN  IF ~Authorized(key)
           THEN Answer(req, Unauthorized, <<>>) /\ UNCHANGED pending
           ELSE IF Rejection(data) # NoResponse
           THEN Answer(req, Rejection(data), <<>>) /\ UNCHANGED pending
           ELSE /\ generated + BagCardinality(pending) < MaxInserts
                /\ pending' = pending (+) SetToBag({InFlight(req, now)})
                /\ UNCHANGED <<request, response, calls>>
    /\ UNCHANGED <<API_KEY, now, store, history>>

\* POST /api/add_observation, from the call of insert_one to the response
insert_observation(p) ==
    /\ Idle
    /\ BagIn(p, pending)
    /\ pending' = pending (-) SetToBag({p})
    /\ \E raised \in BOOLEAN :
          IF raised
          THEN /\ Answer(p.req, Error(500, <<"Failed to add observation">>),
                         <<Call("insert_one", TRUE)>>)
               /\ UNCHANGED <<store, history>>
          ELSE /\ observations_collection' =
                      InsertOne(NewObjectId, Observation(p.req.body.d, p.at))
               /\ generated' = generated + 1
               /\ Answer(p.req,
                         Resp(201, [status |-> "success",
                                    message |-> <<"Observation added successfully">>,
                                    id |-> OidStr(NewObjectId)]),
                         <<Call("insert_one", FALSE)>>)
               /\ submitted' = With(submitted, OidStr(NewObjectId),
                                    [payload |-> p.req.body.d, at |-> p.at])
               /\ UNCHANGED deleted
    /\ UNCHANGED <<API_KEY, now>>

\* GET /api/get_observations
get_observations(key) ==
    /\ Idle
    /\ LET req == Request("get_observations", key, NoBody, <<>>)
       IN  IF ~Authorized(key)
           THEN Answer(req, Unauthorized, <<>>)
           ELSE \E raised \in BOOLEAN :
                  IF raised
                  THEN Answer(req, Error(500, <<"Failed to fetch observations">>),
                              <<Call("find", TRUE)>>)
                  ELSE Answer(req,
                              Resp(200, [status |-> "success",
                                         observations |-> FindAll(generated)]),
                              <<Call("find", FALSE)>>)
    /\ UNCHANGED <<API_KEY, now, store, pending, history>>

\* GET /api/get_observation/<id>
get_observation(key, id) ==
    /\ Idle
    /\ LET req == Request("get_observation", key, NoBody, id)
           failed == Error(500, <<"Failed to fetch observation">>)
       IN  IF ~Authorized(key)
           THEN Answer(req, Unauthorized, <<>>)
           ELSE IF ~ObjectId(id).ok
           THEN Answer(req, failed, <<>>)
           ELSE \E raised \in BOOLEAN :
                  LET oid == ObjectId(id).oid
                  IN  IF raised
                      THEN Answer(req, failed, <<Call("find_one", TRUE)>>)
                      ELSE IF ~Found(ObjectId(id))
                      THEN Answer(req, Error(404, <<"Observation not found">>),
                                  <<Call("find_one", FALSE)>>)
                      ELSE Answer(req,
                                  Resp(200, [status |-> "success",
                                             observation |->
                                                 Render(oid, observations_collection[oid])]),
                                  <<Call("find_one", FALSE)>>)
    /\ UNCHANGED <<API_KEY, now, store, pending, history>>

\* DELETE /api/delete_observation/<id>
delete_observation(key, id) ==
    /\ Idle
    /\ LET req == Request("delete_observation", key, NoBody, id)
           failed == Error(500, <<"Failed to delete observation">>)
       IN  IF ~Authorized(key)
           THEN Answer(req, Unauthorized, <<>>) /\ UNCHANGED <<store, history>>
           ELSE IF ~ObjectId(id).ok
           THEN Answer(req, failed, <<>>) /\ UNCHANGED <<store, history>>
           ELSE \E raised \in BOOLEAN :
                  LET oid == ObjectId(id).oid
                  IN  IF raised
                      THEN /\ Answer(req, failed, <<Call("delete_one", TRUE)>>)
                           /\ UNCHANGED <<store, history>>
                      ELSE IF DeletedCount(ObjectId(id)) = 0
                      THEN /\ Answer(req, Error(404, <<"Observation not found">>),
                                     <<Call("delete_one", FALSE)>>)
                           /\ UNCHANGED <<store, history>>
                      ELSE /\ observations_collection' = DeleteOne(oid)
                           /\ Answer(req,
                                     Resp(200, [status |-> "success",
                                                message |->
                                                    <<"Observation deleted successfully">>]),
                                     <<Call("delete_one", FALSE)>>)
                           /\ submitted' = Restrict(submitted, DOMAIN submitted \ {id})
                           /\ deleted' = deleted \cup {id}
                           /\ UNCHANGED generated
    /\ UNCHANGED <<API_KEY, now, pending>>

\* GET /
home(key) ==
    /\ Idle
    /\ Answer(Request("home", key, NoBody, <<>>),
              Resp(200, [message |-> <<"Welcome to the WildVision Observations Backend!">>,
                         endpoints |-> <<"/api/add_observation (POST)",
                                         "/api/get_observations (GET)",
                                         "/api/get_observation/<id> (GET)",
                                         "/api/delete_observation/<id> (DELETE)">>]),
              <<>>)
    /\ UNCHANGED <<API_KEY, now, store, pending, history>>

\* the response reaches the client
Deliver ==
    /\ ~Idle
    /\ Answer(NoRequest, NoResponse, <<>>)
    /\ UNCHANGED <<API_KEY, now, store, pending, history>>

\* time passes
Tick ==
    /\ now < MaxClock
    /\ now' = now + 1
    /\ UNCHANGED <<API_KEY, store, request, response, calls, pending, history>>

Init ==
    /\ API_KEY \in Secrets
    /\ observations_collection = [k \in {} |-> 0]
    /\ generated = 0
    /\ now = 0
    /\ request = NoRequest
    /\ response = NoResponse
    /\ calls = <<>>
    /\ pending = EmptyBag
    /\ submitted = [k \in {} |-> 0]
    /\ deleted = {}

Next ==
    \/ \E key \in Keys : \E data \in BodiesUnder(key) : add_observation(key, data)
    \/ \E p \in BagToSet(pending) : insert_observation(p)
    \/ \E key \in Keys : get_observations(key)
    \/ \E key \in Keys, id \in PathIds : get_observation(key, id)
    \/ \E key \in Keys, id \in PathIds : delete_observation(key, id)
    \/ \E key \in Keys : home(key)
    \/ Deliver
    \/ Tick

Spec == Init /\ [][Next]_vars

(***************************************************************************)
(* Vocabulary of the properties.                                           *)
(***************************************************************************)
Answered == request # NoRequest
IdRoutes == {"get_observation", "delete_observation"}

\* the uniform envelope {status: "error", message: <text>}
IsEnvelope(resp) ==
    /\ DOMAIN resp.body = {"status", "message"}
    /\ resp.body.status = "error"
    /\ resp.code \in {400, 401, 404, 500}

IsSuccess(resp) ==
    \/ "status" \in DOMAIN resp.body /\ resp.body.status = "success"
    \/ resp.code = 200 /\ "endpoints" \in DOMAIN resp.body

\* the header is absent or differs from the configured secret
Mismatch(key) == key = NoHeader \/ key # API_KEY

\* every store operation of the request returned
StoreAnswered(cs) == cs # <<>> /\ \A i \in 1..Len(cs) : ~cs[i].raised

WellFormedId(id) == Len(id) = OidHexLen /\ \A i \in 1..Len(id) : IsHex(id[i])

\* the JSON values of the six fields of a rendered observation
FieldsOf(obs) ==
    [f \in Fields |->
        CASE f = "species"   -> StrV(obs.species)
          [] f = "gender"    -> StrV(obs.gender)
          [] f = "quantity"  -> IntV(obs.quantity)
          [] f = "latitude"  -> obs.latitude
          [] f = "longitude" -> obs.longitude
          [] f = "userId"    -> StrV(obs.userId)]

\* what the service makes of a submitted payload: text fields as trimmed
\* text, quantity as an integer, the coordinates as floats
CoercedFields(payload) ==
    [f \in Fields |->
        CASE f \in {"species", "gender", "userId"} -> StrV(Strip(PyStr(payload[f])))
          [] f = "quantity" -> PyInt(payload[f]).v
          [] OTHER -> PyFloat(payload[f]).v]

\* an authorized getById of an identifier that add returned and no delete
\* removed, answered by the store
ReadBackOfAdded ==
    /\ request.route = "get_observation"
    /\ Authorized(request.key)
    /\ request.id \in DOMAIN submitted
    /\ StoreAnswered(calls)

(***************************************************************************)
(* C1 (as stated): on every endpoint, GET / included, a request whose      *)
(* x-api-key is absent or differs from the configured secret is answered   *)
(* 401 Unauthorized and leaves the collection unchanged, and a request     *)
(* whose header matches the secret is not answered 401.                    *)
(***************************************************************************)
C1_AllEndpointsGuarded ==
    [][request' # NoRequest /\ request = NoRequest =>
         IF Mismatch(request'.key)
         THEN response' = Unauthorized /\ store' = store
         ELSE response'.code # 401]_vars

(***************************************************************************)
(* C1 (amended): on the four /api endpoints a request whose x-api-key is   *)
(* absent, empty or different from the configured secret is answered 401   *)
(* Unauthorized whatever its payload, makes no store call (none is left    *)
(* in flight either) and leaves the collection unchanged; a request whose  *)
(* header is non-empty and equals the secret is not answered 401; GET /    *)
(* is answered 200 whatever the header.                                    *)
(***************************************************************************)
C1_ApiEndpointsGuarded ==
    [][/\ \A p \in BagToSet(pending') :
             ~Mismatch(p.req.key) /\ p.req.key # Header("")
       /\ request' # NoRequest /\ request = NoRequest =>
             IF request'.route = "home" THEN response'.code = 200 /\ store' = store
             ELSE IF Mismatch(request'.key) \/ request'.key = Header("")
             THEN /\ response' = Unauthorized
                  /\ store' = store
                  /\ calls' = <<>>
                  /\ pending' = pending
             ELSE response'.code # 401]_vars

\* a valid payload under a wrong key is refused
C1_Witness ==
    /\ request.route = "add_observation"
    /\ request.body = DictBody(Deer)
    /\ request.key = Header("wrong")
    /\ API_KEY = Header(Secret)
    /\ response = Unauthorized

(***************************************************************************)
(* C2 (as stated): after a successful add, and until a delete of its id,   *)
(* getById(id) succeeds and returns the six fields identical to the        *)
(* submitted payload, with the timestamp the service set at the add.  A    *)
(* valid payload is one add accepts whose species is not blank.            *)
(***************************************************************************)
C2_IdenticalToPayload ==
    (ReadBackOfAdded /\ Strip(PyStr(submitted[request.id].payload["species"])) # <<>>) =>
        /\ response.code = 200
        /\ FieldsOf(response.body.observation)
               = Restrict(submitted[request.id].payload, Fields)
        /\ response.body.observation.timestamp = IsoZ(submitted[request.id].at)

(***************************************************************************)
(* C2 (amended): after a successful add, and until a delete of its id,     *)
(* getById(id) (authorized, the store answering) succeeds and returns the  *)
(* six fields equal to the submitted values as the service coerces them    *)
(* (species, gender and userId as trimmed text, quantity as an integer,    *)
(* latitude and longitude as floats), under the returned id, with the      *)
(* timestamp the service set at the add, never a client 'timestamp'.       *)
(***************************************************************************)
C2_RoundTrip ==
    ReadBackOfAdded =>
        /\ response.code = 200
        /\ response.body.observation._id = request.id
        /\ FieldsOf(response.body.observation)
               = CoercedFields(submitted[request.id].payload)
        /\ response.body.observation.timestamp = IsoZ(submitted[request.id].at)

\* a payload that needed every coercion, and carried a timestamp, is read back
C2_Witness ==
    /\ ReadBackOfAdded
    /\ submitted[request.id].payload = Loose
    /\ response.code = 200
    /\ response.body.observation.species = <<"E","l","k">>
    /\ response.body.observation.quantity = 3
    /\ response.body.observation.latitude = FloatV(-5, 324)
    /\ response.body.observation.longitude = FloatV(12, 0)

(***************************************************************************)
(* C3: an authorized add of a JSON object is answered 400 with the error   *)
(* envelope, and makes no write, whenever a required key is absent, the    *)
(* gender (as trimmed text) is not Male, Female or Unknown, the quantity   *)
(* coerces to less than 1, or quantity, latitude or longitude cannot be    *)
(* coerced to a number; a quantity "3" is stored as 3; and every stored    *)
(* record has an enumerated gender and a quantity of at least 1.           *)
(***************************************************************************)
C3_InvalidAddIs400 ==
    /\ \A k \in DOMAIN observations_collection :
          /\ GenderAllowed(observations_collection[k].gender)
          /\ observations_collection[k].quantity >= 1
    /\ \A id \in DOMAIN submitted :
          submitted[id].payload["quantity"] = StrV(<<"3">>) =>
              observations_collection[ObjectId(id).oid].quantity = 3
    /\ (/\ request.route = "add_observation"
        /\ Authorized(request.key)
        /\ request.body.k = "dict")
       => LET d == request.body.d
              uncoercible ==
                  \/ ~PyInt(d["quantity"]).ok
                  \/ ~PyFloat(d["latitude"]).ok
                  \/ ~PyFloat(d["longitude"]).ok
              invalid ==
                  \/ ~(Fields \subseteq DOMAIN d)
                  \/ uncoercible
                  \/ ~GenderAllowed(Strip(PyStr(d["gender"])))
                  \/ PyInt(d["quantity"]).v.m < 1
          IN  invalid => response.code = 400 /\ IsEnvelope(response) /\ calls = <<>>

(***************************************************************************)
(* C4 (as stated): an authorized add of an object that lacks a non-empty   *)
(* set M of the required keys is answered 400 with a message naming        *)
(* exactly the keys of M, the empty object included.                       *)
(***************************************************************************)
NamedFields(resp) ==
    IF resp.body.message # <<>> /\ resp.body.message[1] = "Missing fields: "
    THEN {resp.body.message[i] : i \in 2..Len(resp.body.message)}
    ELSE {}

LacksFields ==
    /\ request.route = "add_observation"
    /\ Authorized(request.key)
    /\ request.body.k = "dict"
    /\ Fields \ DOMAIN request.body.d # {}

C4_NamesMissingFields ==
    LacksFields =>
        /\ response.code = 400
        /\ IsEnvelope(response)
        /\ NamedFields(response) = Fields \ DOMAIN request.body.d

(***************************************************************************)
(* C4 (amended): an authorized add of a non-empty object that lacks a      *)
(* non-empty set M of the required keys is answered 400 with the message   *)
(* 'Missing fields: ' naming exactly the keys of M, each once, in the      *)
(* order of the required list; the empty object is answered 400 'No data   *)
(* provided', which names no key.  Neither writes.                         *)
(***************************************************************************)
C4_NamesMissingFieldsOfNonEmpty ==
    LacksFields =>
        /\ response.code = 400
        /\ IsEnvelope(response)
        /\ calls = <<>>
        /\ IF DOMAIN request.body.d = {}
           THEN response.body.message = <<"No data provided">>
           ELSE /\ NamedFields(response) = Fields \ DOMAIN request.body.d
                /\ Tail(response.body.message)
                       = SelectSeq(required_fields,
                                   LAMBDA f : f \notin DOMAIN request.body.d)

\* an object with no required key at all, and one that lacks two of them
C4_Witness ==
    /\ LacksFields
    /\ \/ /\ DOMAIN request.body.d = {"timestamp"}
          /\ Len(response.body.message) = 7
       \/ /\ Fields \ DOMAIN request.body.d = {"gender", "userId"}
          /\ response.body.message = <<"Missing fields: ", "gender", "userId">>

(***************************************************************************)
(* C5: delete is not idempotent.  Once deleteById(id) has succeeded, no    *)
(* later getById(id) or deleteById(id) succeeds, and each one that is      *)
(* authorized and reaches an answering store is answered 404; identifiers  *)
(* of deleted records are not given to later adds; and deleteById answers  *)
(* 200 only when exactly the one record of that id was removed.            *)
(***************************************************************************)
C5_DeleteNotIdempotent ==
    [][request = NoRequest /\ request' # NoRequest =>
         /\ (request'.route \in IdRoutes /\ request'.id \in deleted) =>
                /\ response'.code # 200
                /\ (Authorized(request'.key) /\ StoreAnswered(calls')) =>
                       response' = Error(404, <<"Observation not found">>)
         /\ (request'.route = "add_observation" /\ response'.code = 201) =>
                response'.body.id \notin deleted
         /\ (request'.route = "delete_observation" /\ response'.code = 200) =>
                /\ WellFormedId(request'.id)
                /\ ObjectId(request'.id).oid \in DOMAIN observations_collection
                /\ DOMAIN observations_collection'
                       = DOMAIN observations_collection \ {ObjectId(request'.id).oid}]_vars

\* a second delete of the same id, with another record added in between
C5_Witness ==
    /\ request.route = "delete_observation"
    /\ request.id \in deleted
    /\ response = Error(404, <<"Observation not found">>)
    /\ DOMAIN observations_collection # {}

(***************************************************************************)
(* C6: a stored observation is the same in every state from its creation   *)
(* to its deletion: no step changes the id, the timestamp or any other     *)
(* field of a record that it leaves in the collection.                     *)
(***************************************************************************)
C6_RecordsImmutable ==
    [][\A k \in DOMAIN observations_collection \cap DOMAIN observations_collection' :
          observations_collection'[k] = observations_collection[k]]_vars

\* a record that has outlived a later add, a read and the passing of time
C6_Witness ==
    /\ 1 \in DOMAIN observations_collection
    /\ generated >= 2
    /\ observations_collection[1].timestamp < now
    /\ request.route = "get_observations"
    /\ response.code = 200

(***************************************************************************)
(* C7: every failure is rendered inside the handler as the envelope        *)
(* {status: "error", message: <text>} with 400, 401, 404 or 500; no fault  *)
(* leaves a handler, whatever the body.                                    *)
(***************************************************************************)
C7_NoRawFault ==
    Answered => IsSuccess(response) \/ IsEnvelope(response)

(***************************************************************************)
(* C8: every stored observation has a species that is trimmed and          *)
(* non-empty.                                                              *)
(***************************************************************************)
C8_SpeciesNonEmpty ==
    \A k \in DOMAIN observations_collection :
        /\ observations_collection[k].species # <<>>
        /\ Strip(observations_collection[k].species) = observations_collection[k].species

(***************************************************************************)
(* C9: an authorized getById or deleteById with a malformed identifier     *)
(* (one that is not 24 hexadecimal digits) is answered 500 with the error  *)
(* envelope (not the 404 of a well-formed identifier that matches          *)
(* nothing), before any store call, and leaves the collection unchanged.   *)
(***************************************************************************)
C9_MalformedId ==
    [][(/\ request = NoRequest
        /\ request'.route \in IdRoutes
        /\ Authorized(request'.key)) =>
          IF WellFormedId(request'.id)
          THEN (StoreAnswered(calls')
                /\ ObjectId(request'.id).oid \notin DOMAIN observations_collection)
               => response'.code = 404
          ELSE /\ response'.code = 500
               /\ IsEnvelope(response')
               /\ calls' = <<>>
               /\ store' = store]_vars

(***************************************************************************)
(* C10: the collection changes only by a successful add, which inserts     *)
(* one record under an id no record has and leaves the others as they      *)
(* were, or by a successful delete, which removes the record of that id    *)
(* and leaves the others; every other request, and every request answered  *)
(* with an error, leaves it unchanged.                                     *)
(***************************************************************************)
C10_Frame ==
    [][LET old == observations_collection
           new == observations_collection'
           added == request'.route = "add_observation" /\ response'.code = 201
           removed == request'.route = "delete_observation" /\ response'.code = 200
       IN  IF request = NoRequest /\ added
           THEN \E k \in DOMAIN new \ DOMAIN old :
                   /\ DOMAIN new = DOMAIN old \cup {k}
                   /\ response'.body.id = OidStr(k)
                   /\ \A j \in DOMAIN old : new[j] = old[j]
           ELSE IF request = NoRequest /\ removed
           THEN /\ ObjectId(request'.id).oid \in DOMAIN old
                /\ DOMAIN new = DOMAIN old \ {ObjectId(request'.id).oid}
                /\ \A j \in DOMAIN new : new[j] = old[j]
           ELSE new = old]_vars

\* the same payload added twice: two records
C10_Witness ==
    /\ {1, 2} \subseteq DOMAIN observations_collection
    /\ submitted[OidStr(1)].payload = submitted[OidStr(2)].payload
    /\ request.route = "add_observation"
    /\ response.code = 201
====
